---- MODULE Spec2Model ----
(***************************************************************************)
(* Model of src/src/prompt/index.ts: the viewport window (limitOptions),   *)
(* the live task log (taskLog), the spinner with its process hooks and the  *)
(* bordered block (buildBox).                                              *)
(* Strings are sequences of one-character strings, so that `.length` is    *)
(* Len and split / replace / strip are computed, not assumed.              *)
(***************************************************************************)
EXTENDS Integers, Sequences, FiniteSets, TLC

VARIABLES
  \* ---- limitOptions (index.ts:69-104)
  params,            \* LimitOptionsParams: options, maxItems, cursor
  rows,              \* process.stdout.rows
  lo,                \* the locals and return value of the last limitOptions call
  \* ---- taskLog (index.ts:652-717)
  colors,            \* picocolors emits SGR escapes (TRUE) or plain text (FALSE)
  columns,           \* process.stdout.columns
  parser,            \* options.parser
  output,            \* let output
  frame,             \* let frame
  screen,            \* the terminal: one tag per physical row above the cursor
  appended,          \* history: the strings assigned to `text`, in call order
  lastClear,         \* history: what the last clear() measured and did
  finals,            \* history: the fail / success calls made, in call order
  \* ---- spinner (index.ts:772-861)
  isSpinnerActive,   \* let isSpinnerActive
  _message,          \* let _message
  loop,              \* let loop: the id of the last interval timer, 0 while undefined
  unblock,           \* let unblock: the id of the last input block, 0 while undefined
  timers,            \* live interval timers: id -> the frameIndex and dotsTimer it closes over
  blocks,            \* input blocks acquired by block() and not yet released
  listeners,         \* process listeners of this spinner: event name -> registrations
  written,           \* stdout: the lines written so far, each a sequence of segments
  current,           \* stdout: the segments on the line the cursor is on
  exited,            \* the process has emitted 'exit'
  stopLog,           \* history: the (msg, code) of every run of stop, in order
  event,             \* history: the last call or process event, and whether the
                     \* spinner was active when it happened
  calls,             \* history: how many calls of each kind have been made
  \* ---- buildBox (index.ts:620-646)
  box                \* the arguments of the last buildBox call and what it wrote

lvars == <<params, rows, lo>>
tvars == <<colors, columns, parser, output, frame, screen, appended, lastClear, finals>>
svars == <<isSpinnerActive, _message, loop, unblock, timers, blocks, listeners,
           written, current, exited, stopLog, event, calls>>
bvars == <<box>>
vars == <<params, rows, lo, colors, columns, parser, output, frame, screen,
          appended, lastClear, finals, isSpinnerActive, _message, loop, unblock,
          timers, blocks, listeners, written, current, exited, stopLog, event, calls,
          box>>

\* ------------------------------------------------------------------------
\* Bounds
MaxLen == 12        \* longest option list drawn by LimitInit
MaxRows == 14       \* largest terminal row count drawn by LimitInit
MaxItemsArg == 8    \* largest caller-requested maxItems drawn by LimitInit
MaxColumns == 4     \* widest terminal drawn by TaskInit (MinColumns is the narrowest)
MaxDataLen == 1     \* longest string assigned to `text` in one call
MaxAppends == 3     \* assignments to `text` per task log
MaxFinals == 1      \* fail / success calls per task log
AboveRows == 2      \* rows already on the screen when the task log is created
MaxCalls == 4       \* spinner.start calls, spinner.stop calls and interval callbacks run
MaxBoxLen == 3      \* longest message body drawn by BoxInit

\* ------------------------------------------------------------------------
\* JavaScript helpers
Min(a, b) == IF a <= b THEN a ELSE b
Max(a, b) == IF a >= b THEN a ELSE b

\* Numbers extended with Infinity (index.ts:74)
Num(n) == [inf |-> FALSE, n |-> n]
Infinity == [inf |-> TRUE, n |-> 0]
MathMax(a, b) == IF a.inf \/ b.inf THEN Infinity ELSE Num(Max(a.n, b.n))
MathMin(a, b) == IF a.inf THEN b ELSE IF b.inf THEN a ELSE Num(Min(a.n, b.n))

\* Array.prototype.slice(b, e) on a sequence, indices 0-based as in JS
RelIndex(i, len) == IF i < 0 THEN Max(len + i, 0) ELSE Min(i, len)
slice(arr, b, e) == SubSeq(arr, RelIndex(b, Len(arr)) + 1, RelIndex(e, Len(arr)))

\* ------------------------------------------------------------------------
\* limitOptions

\* maxItems is <<>> for undefined and <<n>> for the number n
Undefined == <<>>
paramMaxItems(p) == IF p.maxItems = Undefined THEN Infinity ELSE Num(p.maxItems[1])
outputMaxItems(r) == Num(Max(r - 4, 0))

\* Mutant: the requested maxItems is not raised to 5
maxItems_NoFloor(p, r) == MathMin(outputMaxItems(r), paramMaxItems(p)).n

\* const maxItems = Math.min(outputMaxItems, Math.max(paramMaxItems, 5))
maxItems(p, r) == MathMin(outputMaxItems(r), MathMax(paramMaxItems(p), Num(5))).n

\* Mutant: two rows of lookahead below the cursor instead of three
slidingWindowLocation_Lookahead2(p, r) ==
  LET M == maxItems(p, r)
      cursor == p.cursor
  IN  IF cursor >= 0 + M - 2
        THEN Max(Min(cursor - M + 2, Len(p.options) - M), 0)
        ELSE IF cursor < 0 + 2
               THEN Max(cursor - 2, 0)
               ELSE 0

slidingWindowLocation(p, r) ==
  LET M == maxItems(p, r)
      cursor == p.cursor
  IN  IF cursor >= 0 + M - 3
        THEN Max(Min(cursor - M + 3, Len(p.options) - M), 0)
        ELSE IF cursor < 0 + 2
               THEN Max(cursor - 2, 0)
               ELSE 0

shouldRenderTopEllipsis(p, r) ==
  maxItems(p, r) < Len(p.options) /\ slidingWindowLocation(p, r) > 0

\* Mutant: the bottom ellipsis does not look at where the window ends
shouldRenderBottomEllipsis_Always(p, r) == maxItems(p, r) < Len(p.options)

shouldRenderBottomEllipsis(p, r) ==
  /\ maxItems(p, r) < Len(p.options)
  /\ slidingWindowLocation(p, r) + maxItems(p, r) < Len(p.options)

\* color.dim('...') and style(option, active)
Ellipsis == [kind |-> "ellipsis", option |-> 0, active |-> FALSE]
style(option, active) == [kind |-> "item", option |-> option, active |-> active]

\* The locals of one call together with its return value `ret`
limitOptions(p, r) ==
  LET M == maxItems(p, r)
      loc == slidingWindowLocation(p, r)
      arr == slice(p.options, loc, loc + M)
  IN  [ maxItems |-> M,
        slidingWindowLocation |-> loc,
        shouldRenderTopEllipsis |-> shouldRenderTopEllipsis(p, r),
        shouldRenderBottomEllipsis |-> shouldRenderBottomEllipsis(p, r),
        ret |-> [ j \in 1..Len(arr) |->
                    LET i == j - 1
                        isTopLimit == i = 0 /\ shouldRenderTopEllipsis(p, r)
                        isBottomLimit == i = Len(arr) - 1 /\ shouldRenderBottomEllipsis(p, r)
                    IN  IF isTopLimit \/ isBottomLimit
                          THEN Ellipsis
                          ELSE style(arr[j], i + loc = p.cursor) ] ]

NotCalled == [done |-> FALSE, call |-> [ret |-> <<>>]]

\* ------------------------------------------------------------------------
\* Strings: sequences of characters, one string per character; ESC stands for
\* \u001B and "U+xxxx" for the character with that code point
ESC == "ESC"
NL == "\n"

RECURSIVE split(_, _)
\* String.prototype.split(sep) for a one-character separator
split(str, sep) ==
  IF \A i \in 1..Len(str) : str[i] # sep
    THEN <<str>>
    ELSE LET k == CHOOSE i \in 1..Len(str) : str[i] = sep /\ \A j \in 1..(i - 1) : str[j] # sep
         IN  <<SubSeq(str, 1, k - 1)>> \o split(SubSeq(str, k + 1, Len(str)), sep)

\* Math.ceil(a / b) for a >= 0, b > 0
ceilDiv(a, b) == (a + b - 1) \div b

\* picocolors: color.dim / color.green / color.red wrap the text in an SGR pair
sgr(open, close, str) == IF colors THEN <<ESC, "[">> \o open \o <<"m">> \o str \o <<ESC, "[">> \o close \o <<"m">> ELSE str
dim(str) == sgr(<<"2">>, <<"2", "2">>, str)
green(str) == sgr(<<"3", "2">>, <<"3", "9">>, str)
red(str) == sgr(<<"3", "1">>, <<"3", "9">>, str)

\* ------------------------------------------------------------------------
\* The terminal
RECURSIVE termWidth(_, _)
\* Columns a string takes on screen: the bytes of an SGR sequence (ESC [ .. m)
\* print nothing, every other character takes one column
termWidth(str, inEsc) ==
  IF str = <<>> THEN 0
  ELSE IF inEsc THEN termWidth(Tail(str), Head(str) # "m")
  ELSE IF Head(str) = ESC THEN termWidth(Tail(str), TRUE)
  ELSE 1 + termWidth(Tail(str), FALSE)

\* Physical rows one written line takes once the terminal soft-wraps it
physRows(line, cols) == Max(1, ceilDiv(termWidth(line, FALSE), cols))

RECURSIVE rowsOf(_, _, _)
rowsOf(lines, tag, cols) ==
  IF lines = <<>> THEN <<>>
  ELSE [i \in 1..physRows(Head(lines), cols) |-> tag] \o rowsOf(Tail(lines), tag, cols)

\* process.stdout.write(text) of a text that ends with a newline: the rows it
\* adds above the cursor, each tagged with what it belongs to
write(scr, text, tag, cols) ==
  LET ls == split(text, NL) IN scr \o rowsOf(SubSeq(ls, 1, Len(ls) - 1), tag, cols)

\* sisteransi cursor.up(n) followed by erase.down(): the cursor cannot leave the
\* screen, everything from the cursor row down is erased
cursorUpEraseDown(scr, n) == SubSeq(scr, 1, Max(Len(scr) - n, 0))

\* ------------------------------------------------------------------------
\* taskLog

S_BAR == <<"U+2502">>
S_STEP_SUBMIT == <<"U+25C7">>
S_SUCCESS == <<"U+25C6">>
S_ERROR == <<"U+25A0">>

BAR == dim(S_BAR)
ACTIVE == green(S_STEP_SUBMIT)
SUCCESS == green(S_SUCCESS)
ERROR == red(S_ERROR)

MinColumns == 3
Chars == {"a", NL}
RECURSIVE StringsUpTo(_)
StringsUpTo(n) ==
  IF n = 0 THEN {<<>>}
  ELSE LET S == StringsUpTo(n - 1) IN S \cup {Append(str, c) : str \in S, c \in Chars}
\* The strings assigned to `text`: every non-empty string up to MaxDataLen
Data == StringsUpTo(MaxDataLen) \ {<<>>}
Titles == {<<"t">>, <<"t", "t", "t", "t">>}
Messages == {<<"m">>}
Parsers == {"none", "upper"}

\* options.parser: absent, or a transform of the whole text (here: upper-casing)
parse(prs, str) ==
  IF prs = "none" THEN str
  ELSE [i \in 1..Len(str) |-> IF str[i] = "a" THEN "A" ELSE str[i]]

RECURSIVE frameHeightOf_Floor(_, _)
\* Mutant: Math.floor instead of Math.ceil
frameHeightOf_Floor(lines, terminalWidth) ==
  IF lines = <<>> THEN 0
  ELSE (Len(Head(lines)) \div terminalWidth) + frameHeightOf_Floor(Tail(lines), terminalWidth)

RECURSIVE frameHeightOf(_, _)
\* height += Math.ceil(line.length / terminalWidth), over the lines of the frame
frameHeightOf(lines, terminalWidth) ==
  IF lines = <<>> THEN 0
  ELSE ceilDiv(Len(Head(lines)), terminalWidth) + frameHeightOf(Tail(lines), terminalWidth)

\* const frameHeight = frame.split('\n').reduce(...)
frameHeight(f, terminalWidth) == frameHeightOf(split(f, NL), terminalWidth)

\* clear(eraseTitle): the number of rows it moves up, 0 when it returns early
clearLines(eraseTitle, f, terminalWidth) ==
  IF f = <<>> THEN 0
  ELSE frameHeight(f, terminalWidth) + (IF eraseTitle THEN 1 ELSE 0)

\* clear(eraseTitle): the screen it leaves
clear(eraseTitle, f, scr, terminalWidth) ==
  IF f = <<>> THEN scr
  ELSE cursorUpEraseDown(scr, clearLines(eraseTitle, f, terminalWidth))

RECURSIVE frameOf(_)
frameOf(lines) ==
  IF lines = <<>> THEN <<>>
  ELSE BAR \o <<" ", " ">> \o Head(lines) \o <<NL>> \o frameOf(Tail(lines))

\* Mutant: only the last line of the text is painted
print_LastLine(limit, out, prs) ==
  LET parsedOutput == parse(prs, out)
      all == split(parsedOutput, NL)
      lines == slice(all, -1, Len(all))
  IN  frameOf(lines)

\* print(limit): the new value of `frame`
print(limit, out, prs) ==
  LET parsedOutput == parse(prs, out)
      all == split(parsedOutput, NL)
      lines == slice(all, -limit, Len(all))
  IN  frameOf(lines)

\* set text(data)
SetText(data) ==
  /\ Len(appended) < MaxAppends
  /\ LET cleared == clear(FALSE, frame, screen, columns)
         newOutput == output \o data
         newFrame == print(0, newOutput, parser)
     IN  /\ output' = newOutput
         /\ frame' = newFrame
         /\ screen' = write(cleared, dim(newFrame), "frame", columns)
         /\ lastClear' = [op |-> "text", lines |-> clearLines(FALSE, frame, columns),
                          before |-> screen, after |-> cleared]
  /\ appended' = Append(appended, data)
  /\ UNCHANGED <<colors, columns, parser, finals>>

\* fail(message)
Fail(message) ==
  /\ Len(finals) < MaxFinals
  /\ LET cleared == clear(TRUE, frame, screen, columns)
         withMessage == write(cleared, ERROR \o <<" ", " ">> \o message \o <<NL>>, "final", columns)
         newFrame == print(0, output, parser)
     IN  /\ frame' = newFrame
         /\ screen' = write(withMessage, dim(newFrame), "frame", columns)
         /\ lastClear' = [op |-> "fail", lines |-> clearLines(TRUE, frame, columns),
                          before |-> screen, after |-> cleared]
  /\ finals' = Append(finals, [op |-> "fail", message |-> message])
  /\ UNCHANGED <<colors, columns, parser, output, appended>>

\* success(message)
Success(message) ==
  /\ Len(finals) < MaxFinals
  /\ LET cleared == clear(TRUE, frame, screen, columns)
     IN  /\ screen' = write(cleared, SUCCESS \o <<" ", " ">> \o message \o <<NL>>, "final", columns)
         /\ lastClear' = [op |-> "success", lines |-> clearLines(TRUE, frame, columns),
                          before |-> screen, after |-> cleared]
  /\ finals' = Append(finals, [op |-> "success", message |-> message])
  /\ UNCHANGED <<colors, columns, parser, output, frame, appended>>

NoClear == [op |-> "none", lines |-> 0, before |-> <<>>, after |-> <<>>]

\* taskLog(title, options): the state after the heading has been written
TaskNew(title) ==
  /\ output = <<>>
  /\ frame = <<>>
  /\ screen = write(write([i \in 1..AboveRows |-> "above"], BAR \o <<NL>>, "bar", columns),
                    ACTIVE \o <<" ", " ">> \o title \o <<NL>>, "title", columns)
  /\ appended = <<>>
  /\ lastClear = NoClear
  /\ finals = <<>>

\* The task log while another component is being checked
TaskIdle ==
  /\ colors = FALSE
  /\ columns = MinColumns
  /\ parser = "none"
  /\ output = <<>>
  /\ frame = <<>>
  /\ screen = <<>>
  /\ appended = <<>>
  /\ lastClear = NoClear
  /\ finals = <<>>

\* ------------------------------------------------------------------------
\* spinner

S_STEP_CANCEL == <<"U+25A0">>
S_STEP_ERROR == <<"U+25B2">>
gray(str) == sgr(<<"9", "0">>, <<"3", "9">>, str)
magenta(str) == sgr(<<"3", "5">>, <<"3", "9">>, str)

\* const frames (unicode)
frames == <<"U+25D2", "U+25D0", "U+25D3", "U+25D1">>

Canceled == <<"C", "a", "n", "c", "e", "l", "e", "d">>
SomethingWentWrong ==
  <<"S", "o", "m", "e", "t", "h", "i", "n", "g", " ", "w", "e", "n", "t", " ",
    "w", "r", "o", "n", "g">>

Faults == {"uncaughtExceptionMonitor", "unhandledRejection"}
Signals == {"SIGINT", "SIGTERM"}
Hooks == Faults \cup Signals \cup {"exit"}

\* Arguments: <<>> when omitted, <<v>> when the value v is passed
Texts == {<<"a", ".">>}
MsgArgs == {Undefined} \cup {<<t>> : t \in Texts}
CodeArgs == {Undefined, <<1>>, <<3>>}
ExitCodes == {0, 1, 2}
\* A parameter with a default value
defaulted(arg, dflt) == IF arg = Undefined THEN dflt ELSE arg[1]

RECURSIVE stripTrailingDots(_)
\* msg.replace(/\.+$/, '')
stripTrailingDots(msg) ==
  IF msg # <<>> /\ msg[Len(msg)] = "."
    THEN stripTrailingDots(SubSeq(msg, 1, Len(msg) - 1))
    ELSE msg

\* block() of the core package hands out a release function; calling it
\* releases that block
block(bs, id) == bs \cup {id}
release(bs, id) == bs \ {id}

\* setInterval / clearInterval
setInterval(ts, id) == [i \in DOMAIN ts \cup {id} |->
                          IF i = id THEN [frameIndex |-> 0, dotsTimer |-> 0] ELSE ts[i]]
clearInterval(ts, id) == [i \in DOMAIN ts \ {id} |-> ts[i]]

\* process.on once per event
registerHooks(ls) == [e \in Hooks |-> ls[e] + 1]

\* Mutant: the 'exit' listener is left registered
clearHooks_KeepsExit(ls) ==
  [e \in Hooks |-> IF ls[e] > 0 /\ e # "exit" THEN ls[e] - 1 ELSE ls[e]]

\* process.removeListener once per event
clearHooks(ls) == [e \in Hooks |-> IF ls[e] > 0 THEN ls[e] - 1 ELSE 0]

Segment(kind, glyph, text, dots) == [kind |-> kind, glyph |-> glyph, text |-> text, dots |-> dots]

\* Mutant: the cancel code gets the error glyph
step_CancelAsError(code) ==
  IF code = 0 THEN green(S_STEP_SUBMIT)
  ELSE red(S_STEP_ERROR)

\* const step = code === 0 ? ... : code === 1 ? ... : ...
step(code) ==
  IF code = 0 THEN green(S_STEP_SUBMIT)
  ELSE IF code = 1 THEN red(S_STEP_CANCEL)
  ELSE red(S_STEP_ERROR)

\* Mutant: the interval timer is not cleared
stop_KeepsTimer(msg, code) ==
  /\ _message' = msg
  /\ isSpinnerActive' = FALSE
  /\ timers' = timers
  /\ written' = Append(written, <<Segment("final", step(code), msg, 0)>>)
  /\ current' = <<>>
  /\ listeners' = clearHooks(listeners)
  /\ blocks' = release(blocks, unblock)
  /\ stopLog' = Append(stopLog, [msg |-> msg, code |-> code])
  /\ UNCHANGED <<loop, unblock>>

\* stop(msg, code), the parameters being those after their defaults: msg is a
\* string, so `msg ?? _message` is msg; the line the cursor is on is erased
\* and the final line is written; unblock() comes last
stop(msg, code) ==
  /\ _message' = msg
  /\ isSpinnerActive' = FALSE
  /\ timers' = clearInterval(timers, loop)
  /\ written' = Append(written, <<Segment("final", step(code), msg, 0)>>)
  /\ current' = <<>>
  /\ listeners' = clearHooks(listeners)
  /\ blocks' = release(blocks, unblock)
  /\ stopLog' = Append(stopLog, [msg |-> msg, code |-> code])
  /\ UNCHANGED <<loop, unblock>>

\* What a hook leaves alone when it does not stop the spinner
NotStopped ==
  UNCHANGED <<_message, isSpinnerActive, timers, written, current, listeners, blocks,
              stopLog, loop, unblock>>

\* Mutant: stop is called whether or not the spinner is running
handleExit_NoGuard(code) ==
  stop(IF code > 1 THEN SomethingWentWrong ELSE Canceled, code)

handleExit(code) ==
  LET msg == IF code > 1 THEN SomethingWentWrong ELSE Canceled
  IN  IF isSpinnerActive THEN stop(msg, code) ELSE NotStopped

errorEventHandler == handleExit(2)
signalEventHandler == handleExit(1)

\* The listener registerHooks attaches to each event; 'exit' passes the exit code
listener(e, code) ==
  IF e \in Faults THEN errorEventHandler
  ELSE IF e \in Signals THEN signalEventHandler
  ELSE handleExit(code)

\* spinner.start(msg)
Start(arg) ==
  /\ ~exited
  /\ loop + calls.stop + calls.tick < MaxCalls
  /\ LET msg == defaulted(arg, <<>>)
         id == loop + 1
     IN  /\ isSpinnerActive' = TRUE
         /\ unblock' = id
         /\ blocks' = block(blocks, id)
         /\ _message' = stripTrailingDots(msg)
         /\ written' = Append(written, current \o <<Segment("bar", gray(S_BAR), <<>>, 0)>>)
         /\ current' = <<>>
         /\ listeners' = registerHooks(listeners)
         /\ loop' = id
         /\ timers' = setInterval(timers, id)
  /\ event' = [kind |-> "start", name |-> "", code |-> 0, active |-> isSpinnerActive]
  /\ calls' = [calls EXCEPT !.overlap = @ + (IF isSpinnerActive THEN 1 ELSE 0)]
  /\ UNCHANGED <<exited, stopLog>>

\* One run of the interval callback of timer id
Tick(id) ==
  /\ ~exited
  /\ loop + calls.stop + calls.tick < MaxCalls
  /\ id \in DOMAIN timers
  /\ LET frameIndex == timers[id].frameIndex
         dotsTimer == timers[id].dotsTimer    \* in eighths
         loadingDots == Min(dotsTimer \div 8, 3)
     IN  /\ current' = <<Segment("frame", magenta(<<frames[frameIndex + 1]>>), _message, loadingDots)>>
         /\ timers' = [timers EXCEPT ![id] =
                         [frameIndex |-> IF frameIndex + 1 < Len(frames) THEN frameIndex + 1 ELSE 0,
                          dotsTimer |-> IF dotsTimer < 8 * Len(frames) THEN dotsTimer + 1 ELSE 0]]
  /\ event' = [kind |-> "tick", name |-> "", code |-> 0, active |-> isSpinnerActive]
  /\ calls' = [calls EXCEPT !.tick = @ + 1]
  /\ UNCHANGED <<isSpinnerActive, _message, loop, unblock, blocks, listeners, written,
                 exited, stopLog>>

\* spinner.stop(msg, code) called by the user of the spinner
Stop(arg, codeArg) ==
  /\ ~exited
  /\ loop + calls.stop + calls.tick < MaxCalls
  /\ stop(defaulted(arg, <<>>), defaulted(codeArg, 0))
  /\ event' = [kind |-> "stop", name |-> "", code |-> defaulted(codeArg, 0), active |-> isSpinnerActive]
  /\ calls' = [calls EXCEPT !.stop = @ + 1,
                            !.late = @ + (IF isSpinnerActive THEN 0 ELSE 1)]
  /\ UNCHANGED exited

\* Mutant: message repaints the animated line at once
Message_Repaints(arg) ==
  /\ ~exited
  /\ _message' = defaulted(arg, <<>>)
  /\ current' = IF isSpinnerActive
                  THEN <<Segment("frame", magenta(<<frames[1]>>), defaulted(arg, <<>>), 0)>>
                  ELSE current
  /\ event' = [kind |-> "message", name |-> "", code |-> 0, active |-> isSpinnerActive]
  /\ UNCHANGED <<isSpinnerActive, loop, unblock, timers, blocks, listeners, written,
                 exited, stopLog, calls>>

\* spinner.message(msg)
Message(arg) ==
  /\ ~exited
  /\ _message' = defaulted(arg, <<>>)
  /\ event' = [kind |-> "message", name |-> "", code |-> 0, active |-> isSpinnerActive]
  /\ UNCHANGED <<isSpinnerActive, loop, unblock, timers, blocks, listeners, written, current,
                 exited, stopLog, calls>>

\* The process emits event e (with the exit code, for 'exit'): the listener
\* runs once per registration; after the first run the spinner is not active,
\* so the further runs do nothing
Emit(e, code) ==
  /\ ~exited
  /\ IF listeners[e] > 0 THEN listener(e, code) ELSE NotStopped
  /\ exited' = (e = "exit")
  /\ event' = [kind |-> "emit", name |-> e, code |-> code, active |-> isSpinnerActive]
  /\ UNCHANGED calls

NoEvent == [kind |-> "none", name |-> "", code |-> 0, active |-> FALSE]
NoCalls == [stop |-> 0, late |-> 0, tick |-> 0, overlap |-> 0]

\* spinner(): the state of a new spinner
SpinnerNew ==
  /\ isSpinnerActive = FALSE
  /\ _message = <<>>
  /\ loop = 0
  /\ unblock = 0
  /\ timers = <<>>
  /\ blocks = {}
  /\ listeners = [e \in Hooks |-> 0]
  /\ written = <<>>
  /\ current = <<>>
  /\ exited = FALSE
  /\ stopLog = <<>>
  /\ event = NoEvent
  /\ calls = NoCalls

\* ------------------------------------------------------------------------
\* buildBox

S_BAR_H == <<"U+2500">>
S_CORNER_TOP_RIGHT == <<"U+256E">>
S_CONNECT_LEFT == <<"U+251C">>
S_CORNER_BOTTOM_RIGHT == <<"U+256F">>

reset(str) == sgr(<<"0">>, <<"0">>, str)

\* The character classes of ansiRegex(): the bytes that start a sequence, the
\* bytes [[\]()#;?] that may follow the start, the digits, and the final bytes
\* [\dA-PR-TZcf-nq-uy=><~] (of the letters, those the inputs can hold)
Starters == {ESC, "U+009B"}
Intro == {"[", "]", "(", ")", "#", ";", "?"}
Digits == {"0", "1", "2", "3", "4", "5", "6", "7", "8", "9"}
FinalBytes == Digits \cup {"c", "f", "g", "h", "i", "j", "k", "l", "m", "n",
                          "q", "r", "s", "t", "u", "y", "=", ">", "<", "~"}

RECURSIVE Run(_, _, _)
\* How many characters of str, from index i on, are in the set S
Run(str, i, S) ==
  IF i > Len(str) \/ str[i] \notin S THEN 0 ELSE 1 + Run(str, i + 1, S)

\* The length of the match of ansiRegex() at index i, 0 when there is none.
\* The first alternative needs a BEL (\u0007) to end it and the parameter
\* separator of the second is ';': the inputs hold neither, so the match is the
\* start byte, the run of intro bytes, at most 4 digits and one final byte; as
\* a digit is a final byte too, the last digit ends the match when what
\* follows the digits is not a final byte
ansiRegex(str, i) ==
  IF str[i] \notin Starters THEN 0
  ELSE LET k == Run(str, i + 1, Intro)
           d == Min(Run(str, i + 1 + k, Digits), 4)
           p == i + 1 + k + d
       IN  IF p <= Len(str) /\ str[p] \in FinalBytes THEN 1 + k + d + 1
           ELSE IF d >= 1 THEN 1 + k + d
           ELSE 0

RECURSIVE stripFrom(_, _)
stripFrom(str, i) ==
  IF i > Len(str) THEN <<>>
  ELSE LET n == ansiRegex(str, i)
       IN  IF n > 0 THEN stripFrom(str, i + n)
           ELSE <<str[i]>> \o stripFrom(str, i + 1)

\* const strip = (str) => str.replace(ansiRegex(), '')
strip(str) == stripFrom(str, 1)

RECURSIVE repeat(_, _)
\* String.prototype.repeat
repeat(str, n) == IF n <= 0 THEN <<>> ELSE str \o repeat(str, n - 1)

RECURSIVE join(_, _)
\* Array.prototype.join
join(strs, sep) ==
  IF strs = <<>> THEN <<>>
  ELSE IF Len(strs) = 1 THEN strs[1]
  ELSE strs[1] \o sep \o join(Tail(strs), sep)

RECURSIVE longest(_, _)
\* lines.reduce((sum, ln) => { ln = strip(ln); return ln.length > sum ? ln.length : sum; }, 0)
longest(lines, sum) ==
  IF lines = <<>> THEN sum
  ELSE LET ln == strip(Head(lines))
       IN  longest(Tail(lines), IF Len(ln) > sum THEN Len(ln) ELSE sum)

\* Mutant: the padding is computed from the raw length of the line
boxRow_RawLength(ln, len, dimmed) ==
  gray(S_BAR) \o <<" ", " ">> \o (IF dimmed THEN dim(ln) ELSE ln)
    \o repeat(<<" ">>, len - Len(ln)) \o gray(S_BAR)

\* One body row of the box: bar, two spaces, the line, the padding, bar
boxRow(ln, len, dimmed) ==
  gray(S_BAR) \o <<" ", " ">> \o (IF dimmed THEN dim(ln) ELSE ln)
    \o repeat(<<" ">>, len - Len(strip(ln))) \o gray(S_BAR)

\* buildBox(message, title, dimmed): its locals and the text it writes
buildBox(message, title, dimmed) ==
  LET lines == split(<<NL>> \o message \o <<NL>>, NL)
      titleLen == Len(strip(title))
      len == Max(longest(lines, 0), titleLen) + 2
      msg == join([i \in 1..Len(lines) |-> boxRow(lines[i], len, dimmed)], <<NL>>)
  IN  [lines |-> lines, titleLen |-> titleLen, len |-> len, msg |-> msg,
       out |-> gray(S_BAR) \o <<NL>> \o green(S_STEP_SUBMIT) \o <<" ", " ">> \o reset(title)
                 \o <<" ">>
                 \o gray(repeat(S_BAR_H, Max(len - titleLen - 1, 1)) \o S_CORNER_TOP_RIGHT)
                 \o <<NL>> \o msg \o <<NL>>
                 \o gray(S_CONNECT_LEFT \o repeat(S_BAR_H, len + 2) \o S_CORNER_BOTTOM_RIGHT)
                 \o <<NL>>]

NoBox == [done |-> FALSE, message |-> <<>>, title |-> <<>>, dimmed |-> FALSE,
          call |-> [lines |-> <<>>, titleLen |-> 0, len |-> 0, msg |-> <<>>, out |-> <<>>]]

\* No box has been asked for or written
BoxIdle == box = NoBox

\* note(message, title) when dimmed, box(message, title) when not
BuildBox ==
  /\ ~box.done
  /\ box' = [box EXCEPT !.done = TRUE,
                        !.call = buildBox(box.message, box.title, box.dimmed)]

\* ------------------------------------------------------------------------
\* Specification of the viewport window: the inputs are drawn from a grid and
\* from the two scenarios of the documentation, then limitOptions is applied

\* The shortest terminal that leaves limitOptions one row (rows - 4 >= 1); on a
\* shorter one the effective max is 0 and nothing is returned
MinRows == 4 + 1
Options(L) == [i \in 1..L |-> i]
MaxItemsArgs == {Undefined} \cup {<<n>> : n \in 0..MaxItemsArg}
Scenarios ==
  { <<[options |-> Options(20), maxItems |-> Undefined, cursor |-> 19], 24>>,
    <<[options |-> Options(100), maxItems |-> <<10>>, cursor |-> 50], 50>> }
Grid ==
  { <<[options |-> Options(L), maxItems |-> m, cursor |-> c], r>> :
      L \in 1..MaxLen, m \in MaxItemsArgs, c \in 0..(MaxLen - 1), r \in MinRows..MaxRows }

LimitIdle ==
  /\ params = [options |-> Options(1), maxItems |-> Undefined, cursor |-> 0]
  /\ rows = 24
  /\ lo = NotCalled

LimitInit ==
  /\ \E in \in Grid \cup Scenarios :
       /\ in[1].cursor < Len(in[1].options)
       /\ params = in[1]
       /\ rows = in[2]
  /\ lo = NotCalled
  /\ TaskIdle
  /\ SpinnerNew
  /\ BoxIdle

LimitOptions ==
  /\ ~lo.done
  /\ lo' = [done |-> TRUE, call |-> limitOptions(params, rows)]
  /\ UNCHANGED <<params, rows>>
  /\ UNCHANGED tvars
  /\ UNCHANGED svars
  /\ UNCHANGED bvars

LimitNext == LimitOptions
LimitSpec == LimitInit /\ [][LimitNext]_vars

\* ------------------------------------------------------------------------
\* Specification of the task log

TaskInit ==
  /\ colors \in BOOLEAN
  /\ columns \in MinColumns..MaxColumns
  /\ parser \in Parsers
  /\ \E title \in Titles : TaskNew(title)
  /\ LimitIdle
  /\ SpinnerNew
  /\ BoxIdle

TaskNext ==
  \/ \E data \in Data : SetText(data) /\ UNCHANGED lvars /\ UNCHANGED svars /\ UNCHANGED bvars
  \/ \E message \in Messages : Fail(message) /\ UNCHANGED lvars /\ UNCHANGED svars /\ UNCHANGED bvars
  \/ \E message \in Messages : Success(message) /\ UNCHANGED lvars /\ UNCHANGED svars /\ UNCHANGED bvars

TaskSpec == TaskInit /\ [][TaskNext]_vars

\* ------------------------------------------------------------------------
\* Specification of the bordered block: the message body, the title and the
\* dimmed flag are drawn, then buildBox is applied

\* The characters of a drawn body: a letter, a digit, the final byte of an SGR
\* sequence, the bytes that open one, and the newline
BoxChars == {"a", "2", "m", "[", ESC, NL}
RECURSIVE BoxStringsUpTo(_)
BoxStringsUpTo(n) ==
  IF n = 0 THEN {<<>>}
  ELSE LET S == BoxStringsUpTo(n - 1) IN S \cup {Append(str, c) : str \in S, c \in BoxChars}
\* A body of three lines of visible length 3, 10 and 1, the second one in red
BoxScenarios ==
  { <<"a", "b", "c", NL,
      ESC, "[", "3", "1", "m", "a", "b", "c", "d", "e", "f", "g", "h", "i", "j",
      ESC, "[", "3", "9", "m", NL,
      "a">> }
BoxMessages == BoxStringsUpTo(MaxBoxLen) \cup BoxScenarios
\* No title, a plain title of length 6, a bold title of visible length 1
BoxTitles == {<<>>, <<"T", "i", "t", "l", "e", "!">>,
              <<ESC, "[", "1", "m", "t", ESC, "[", "2", "2", "m">>}

BoxTerminal ==
  /\ colors \in BOOLEAN
  /\ columns = MinColumns
  /\ parser = "none"
  /\ output = <<>>
  /\ frame = <<>>
  /\ screen = <<>>
  /\ appended = <<>>
  /\ lastClear = NoClear
  /\ finals = <<>>

BoxInit ==
  /\ \E message \in BoxMessages, title \in BoxTitles, dimmed \in BOOLEAN :
       box = [NoBox EXCEPT !.message = message, !.title = title, !.dimmed = dimmed]
  /\ BoxTerminal
  /\ LimitIdle
  /\ SpinnerNew

BoxNext == BuildBox /\ UNCHANGED lvars /\ UNCHANGED tvars /\ UNCHANGED svars
BoxSpec == BoxInit /\ [][BoxNext]_vars

\* ------------------------------------------------------------------------
\* Specification of the spinner: one spinner, its caller, its interval timers
\* and the process events

\* The terminal and the colour support while the spinner is checked
SpinnerTerminal ==
  /\ colors = TRUE
  /\ columns = MinColumns
  /\ parser = "none"
  /\ output = <<>>
  /\ frame = <<>>
  /\ screen = <<>>
  /\ appended = <<>>
  /\ lastClear = NoClear
  /\ finals = <<>>

Init ==
  /\ SpinnerNew
  /\ SpinnerTerminal
  /\ LimitIdle
  /\ BoxIdle

Others == <<params, rows, lo, colors, columns, parser, output, frame, screen,
            appended, lastClear, finals, box>>

Next ==
  \/ \E arg \in MsgArgs : Start(arg) /\ UNCHANGED Others
  \/ \E id \in 1..MaxCalls : Tick(id) /\ UNCHANGED Others
  \/ \E arg \in MsgArgs, codeArg \in CodeArgs : Stop(arg, codeArg) /\ UNCHANGED Others
  \/ \E arg \in MsgArgs : Message(arg) /\ UNCHANGED Others
  \/ \E e \in Faults \cup Signals : Emit(e, 0) /\ UNCHANGED Others
  \/ \E code \in ExitCodes : Emit("exit", code) /\ UNCHANGED Others

Spec == Init /\ [][Next]_vars

\* ------------------------------------------------------------------------
\* Claims about limitOptions (checked under LimitSpec)

L == Len(params.options)
M == lo.call.maxItems
start == lo.call.slidingWindowLocation
ret == lo.call.ret
IsCursorRow(row) == row = style(params.options[params.cursor + 1], TRUE)

\* C4: for every list, cursor, maxItems and terminal row count the result has
\* at most effectiveMax rows and the cursor's row is among them as a real item
\* row, styled active
C4_CursorRowReturned ==
  lo.done => /\ Len(ret) <= M
             /\ \E j \in 1..Len(ret) : IsCursorRow(ret[j])

C7_WindowStartFormula ==
  lo.done =>
    LET c == params.cursor
        requested == IF params.maxItems = Undefined THEN rows - 4
                     ELSE IF params.maxItems[1] > 5 THEN params.maxItems[1] ELSE 5
        capped == IF rows - 4 < requested THEN rows - 4 ELSE requested
        eff == IF capped > 0 THEN capped ELSE 0
        lower == IF c - eff + 3 < L - eff THEN c - eff + 3 ELSE L - eff
    IN  /\ M = eff
        /\ start = (IF c >= eff - 3 THEN (IF lower > 0 THEN lower ELSE 0) ELSE 0)
        /\ (L = 20 /\ params.maxItems = Undefined /\ rows = 24 /\ c = 19
              => M = 20 /\ start = 0 /\ Len(ret) = 20
                 /\ \A j \in 1..Len(ret) : ret[j] # Ellipsis)
        /\ (L = 100 /\ params.maxItems = <<10>> /\ rows = 50 /\ c = 50
              => M = 10 /\ start = 43 /\ Len(ret) = 10
                 /\ ret[1] = Ellipsis /\ ret[10] = Ellipsis)

C7_Witness ==
  /\ lo.done
  /\ L = 100
  /\ params.maxItems = <<10>>
  /\ rows = 50
  /\ params.cursor = 50
  /\ start = 43

\* ------------------------------------------------------------------------
\* Claims about taskLog (checked under TaskSpec)

RECURSIVE Flatten(_)
Flatten(strs) == IF strs = <<>> THEN <<>> ELSE Head(strs) \o Flatten(Tail(strs))

RECURSIVE SumOver(_, _)
SumOver(f, n) == IF n = 0 THEN 0 ELSE f[n] + SumOver(f, n - 1)

IsPrefix(a, b) == Len(a) <= Len(b) /\ SubSeq(b, 1, Len(a)) = a
IsFrameRow(tag) == tag = "frame"
IsOtherRow(tag) == tag # "frame"
\* The text accumulated before the last assignment to `text`
PreviousOutput == Flatten(SubSeq(appended, 1, Len(appended) - 1))

\* C8: on every append (while the log has not been finalised) the number of
\* rows moved up before erasing is the number of terminal rows the previous
\* frame occupies on screen, so exactly the frame rows are erased: the heading
\* and the rows above it stay and no frame row is left behind
C8_EraseCountMatchesScreen ==
  (lastClear.op = "text" /\ finals = <<>>) =>
    /\ lastClear.lines = Len(SelectSeq(lastClear.before, IsFrameRow))
    /\ lastClear.after = SelectSeq(lastClear.before, IsOtherRow)

\* C9 as stated: with no parser and a single-line accumulated buffer, the erase
\* row count used by an append is ceil(totalVisibleChars / terminalColumns),
\* totalVisibleChars being the characters appended before it
C9_EraseCountCeilOfTotal ==
  ( /\ lastClear.op = "text"
    /\ Len(appended) >= 2
    /\ parser = "none"
    /\ \A i \in 1..Len(PreviousOutput) : PreviousOutput[i] # NL )
  => lastClear.lines = ceilDiv(Len(PreviousOutput), columns)

\* C9 as amended: the erase row count used by an append is the sum, over the
\* lines of the previously painted text, of ceil(paintedLength / columns), where
\* paintedLength is the string length of the line as painted: the bar prefix
\* (3 characters unstyled, 12 with the dim escape codes) plus the text; for a
\* single-line buffer that is ceil((prefix + totalChars) / columns)
C9_EraseCountCeilOfPaintedLines ==
  (lastClear.op = "text" /\ Len(appended) >= 2) =>
    LET prefix == IF colors THEN 12 ELSE 3
        lines == split(parse(parser, PreviousOutput), NL)
        heights == [i \in 1..Len(lines) |->
                      (prefix + Len(lines[i]) + columns - 1) \div columns]
    IN  /\ lastClear.lines = SumOver(heights, Len(lines))
        /\ Len(lines) = 1 =>
             lastClear.lines = (prefix + Len(PreviousOutput) + columns - 1) \div columns

C9_Witness ==
  /\ lastClear.op = "text"
  /\ Len(appended) = 3
  /\ parser = "none"
  /\ ~colors
  /\ Len(PreviousOutput) = 2
  /\ \A i \in 1..Len(PreviousOutput) : PreviousOutput[i] # NL
  /\ lastClear.lines = 2

\* The frame that paints the whole of a text: one line per line of the text,
\* each behind the bar prefix
PaintsWhole(f, text) ==
  LET painted == split(f, NL)
      lines == split(text, NL)
  IN  /\ Len(painted) = Len(lines) + 1
      /\ painted[Len(painted)] = <<>>
      /\ \A i \in 1..Len(lines) : painted[i] = BAR \o <<" ", " ">> \o lines[i]

RECURSIVE TrailingFrameRows(_)
TrailingFrameRows(scr) ==
  IF scr = <<>> \/ scr[Len(scr)] # "frame" THEN 0
  ELSE 1 + TrailingFrameRows(SubSeq(scr, 1, Len(scr) - 1))

C10_WholeTextPainted ==
  /\ output = Flatten(appended)
  /\ appended # <<>> => PaintsWhole(frame, parse(parser, Flatten(appended)))
  /\ lastClear.op = "text" =>
       LET lines == split(parse(parser, Flatten(appended)), NL)
           heights == [i \in 1..Len(lines) |-> physRows(S_BAR \o <<" ", " ">> \o lines[i], columns)]
       IN  TrailingFrameRows(screen) = SumOver(heights, Len(lines))

\* C10: the buffer only grows, it is always the concatenation in call order of
\* the appended strings, and every append paints the whole accumulated (parsed)
\* text as the new frame, not only the appended piece
C10_BufferGrowsAndIsRepaintedWhole ==
  /\ []C10_WholeTextPainted
  /\ [][IsPrefix(output, output') /\ (appended' # appended => output' = output \o appended'[Len(appended')])]_vars

C10_Witness ==
  /\ Len(appended) = 3
  /\ \A i \in 1..3 : appended[i] # <<>>
  /\ Len(split(output, NL)) >= 2
  /\ parser = "upper"
  /\ lastClear.op = "text"

IsLiveRow(tag) == tag = "frame" \/ tag = "title"
IsStaticRow(tag) == ~IsLiveRow(tag)

\* C11: after zero or more appends, the first fail(message) or success(message)
\* erases the live region, heading line included (the rows of the frame and of
\* the title go, the rows above them stay), then writes the final message in
\* the error or success style; fail then dumps the whole (parsed) text below
\* it, success writes nothing more
C11_FinalErasesHeadingThenWrites ==
  (Len(finals) = 1 /\ lastClear.op = finals[1].op) =>
    LET failed == finals[1].op = "fail"
        glyph == IF failed THEN ERROR ELSE SUCCESS
        lines == split(parse(parser, output), NL)
        final == rowsOf(<<glyph \o <<" ", " ">> \o finals[1].message>>, "final", columns)
        dump == IF failed
                  THEN rowsOf([i \in 1..Len(lines) |-> BAR \o <<" ", " ">> \o lines[i]],
                              "frame", columns)
                  ELSE <<>>
    IN  /\ lastClear.after = SelectSeq(lastClear.before, IsStaticRow)
        /\ screen = lastClear.after \o final \o dump
        /\ failed => PaintsWhole(frame, parse(parser, output))

\* ------------------------------------------------------------------------
\* Claims about buildBox (checked under BoxSpec)

\* The rows of the written text between the top border and the bottom border
BodyRows ==
  LET written_lines == split(box.call.out, NL)
  IN  SubSeq(written_lines, 3, Len(written_lines) - 2)
\* The visible length of a string: what is left of it once the styling is stripped
visibleLength(str) == Len(strip(str))
MaxVisible(strs) ==
  IF strs = <<>> THEN 0
  ELSE CHOOSE n \in {visibleLength(strs[i]) : i \in DOMAIN strs} :
         \A i \in DOMAIN strs : visibleLength(strs[i]) <= n

\* C12: contentWidth is max(longest visible body line, visible title) + 2, the
\* body lines being those of the message with a blank line before and after;
\* every body row, once stripped, is the bar, two spaces, the stripped line
\* and spaces up to contentWidth, then the bar, so all the rows have the same
\* visible width; lines of visible length 3, 10, 1 under a title of visible
\* length 6 give contentWidth 12
C12_BodyRowsContentWidth ==
  box.done =>
    LET bodyLines == <<<<>>>> \o split(box.message, NL) \o <<<<>>>>
        contentWidth == Max(MaxVisible(bodyLines), visibleLength(box.title)) + 2
    IN  /\ box.call.len = contentWidth
        /\ Len(BodyRows) = Len(bodyLines)
        /\ \A i \in DOMAIN BodyRows :
             LET row == strip(BodyRows[i])
                 text == strip(bodyLines[i])
             IN  /\ Len(row) = 1 + 2 + contentWidth + 1
                 /\ SubSeq(row, 1, 3) = S_BAR \o <<" ", " ">>
                 /\ SubSeq(row, 4, 3 + Len(text)) = text
                 /\ \A j \in (4 + Len(text))..(3 + contentWidth) : row[j] = " "
                 /\ row[Len(row)] = S_BAR[1]
        /\ (box.message \in BoxScenarios /\ visibleLength(box.title) = 6) => contentWidth = 12

C12_Witness ==
  /\ box.done
  /\ box.message \in BoxScenarios
  /\ box.title = <<"T", "i", "t", "l", "e", "!">>
  /\ box.dimmed
  /\ colors
  /\ box.call.len = 12
  /\ Len(BodyRows) = 5

\* ------------------------------------------------------------------------
\* Claims about the spinner (checked under Spec)

IsFinalLine(l) == l # <<>> /\ l[Len(l)].kind = "final"
FinalLines == Cardinality({i \in DOMAIN written : IsFinalLine(written[i])})
\* This step is the emission of event e
Emitted(e) == event'.kind = "emit" /\ event'.name = e
\* This step ran stop
StopRan == Len(stopLog') = Len(stopLog) + 1

\* C1: a spinner started once and ended by any one exit path (stop with code
\* 0, 1 or 3, a fault hook, a signal hook, each possibly followed by 'exit' and
\* by further process events) has written exactly one final line, its last
\* line; its interval timer is cancelled and no tick has written after it
C1_OneFinalLineTimerCancelled ==
  (loop = 1 /\ calls.late = 0 /\ ~isSpinnerActive) =>
    /\ FinalLines = 1
    /\ IsFinalLine(written[Len(written)])
    /\ current = <<>>
    /\ DOMAIN timers = {}

C1_Witness ==
  /\ loop = 1
  /\ ~isSpinnerActive
  /\ calls.stop = 0
  /\ calls.tick = 1
  /\ event.kind = "emit"
  /\ event.name = "exit"
  /\ ~event.active
  /\ stopLog = <<[msg |-> Canceled, code |-> 1]>>
  /\ FinalLines = 1

\* C2: a registered hook calls stop if and only if the spinner is running,
\* with code 1 for SIGINT / SIGTERM and a code > 1 for the two fault hooks; when
\* the spinner is not running the hook writes nothing; while the spinner runs
\* every hook is registered
C2_HooksStopIffActive ==
  /\ [](isSpinnerActive => \A e \in Hooks : listeners[e] > 0)
  /\ [][\A e \in Hooks :
          (Emitted(e) /\ listeners[e] > 0) =>
            IF isSpinnerActive
              THEN /\ StopRan
                   /\ ~isSpinnerActive'
                   /\ e \in Signals => stopLog'[Len(stopLog')].code = 1
                   /\ e \in Faults => stopLog'[Len(stopLog')].code > 1
                   /\ Len(written') = Len(written) + 1
                   /\ IsFinalLine(written'[Len(written')])
              ELSE /\ stopLog' = stopLog
                   /\ written' = written
                   /\ current' = current]_vars

C2_Witness ==
  /\ event.kind = "emit"
  /\ event.name \in Faults
  /\ calls.stop = 0
  /\ event.active
  /\ stopLog = <<[msg |-> SomethingWentWrong, code |-> 2]>>
  /\ ~isSpinnerActive

\* C3: every run of stop removes one registration of each of the five hooks,
\* so that (no start having been made on a running spinner) no hook is
\* registered once the spinner is stopped; a process event after a stop does
\* not run stop again and writes nothing
C3_HooksDeregisteredByStop ==
  /\ []((~isSpinnerActive /\ calls.overlap = 0) => \A e \in Hooks : listeners[e] = 0)
  /\ [][StopRan => \A e \in Hooks :
                     listeners'[e] = (IF listeners[e] > 0 THEN listeners[e] - 1 ELSE 0)]_vars
  /\ [][\A e \in Hooks :
          (Emitted(e) /\ ~isSpinnerActive) =>
            /\ stopLog' = stopLog
            /\ written' = written
            /\ current' = current]_vars

C3_Witness ==
  /\ ~isSpinnerActive
  /\ calls.overlap = 0
  /\ calls.stop = 1
  /\ calls.late = 0
  /\ event.kind = "emit"
  /\ event.name = "exit"
  /\ ~event.active
  /\ Len(stopLog) = 1
  /\ FinalLines = 1

\* The final lines written so far, in order
FinalLinesWritten == SelectSeq(written, IsFinalLine)
\* The glyph the claims give to an exit code
GlyphOf(code) ==
  IF code = 0 THEN green(S_STEP_SUBMIT)
  ELSE IF code = 1 THEN red(S_STEP_CANCEL)
  ELSE red(S_STEP_ERROR)

\* C13: every run of stop(message, code) writes one final line, made of one
\* static segment (nothing of the animated line is left on it): the glyph, then
\* the message; the glyph is the success glyph for code 0, the cancelled glyph
\* for code 1 and the error glyph for any other code, whatever the message
C13_GlyphChosenByCode ==
  /\ Len(FinalLinesWritten) = Len(stopLog)
  /\ \A i \in DOMAIN stopLog :
       FinalLinesWritten[i] = <<Segment("final", GlyphOf(stopLog[i].code), stopLog[i].msg, 0)>>
  /\ \A i, j \in DOMAIN stopLog :
       stopLog[i].code = stopLog[j].code =>
         FinalLinesWritten[i][1].glyph = FinalLinesWritten[j][1].glyph

C13_Witness ==
  /\ calls.stop = 3
  /\ Len(stopLog) = 3
  /\ stopLog[1].code = 0
  /\ stopLog[2].code = 1
  /\ stopLog[3] = [msg |-> <<"a", ".">>, code |-> 3]
  /\ FinalLinesWritten[3][1].glyph = red(S_STEP_ERROR)
  /\ FinalLinesWritten[1][1].glyph # FinalLinesWritten[2][1].glyph

\* C14: message(text) only replaces the stored message, by the text passed
\* (the empty string when none is): it writes nothing and leaves the running
\* flag, the timers with their frame index and dots counter, the hooks and the
\* input blocks as they are; a tick paints the message stored when it runs, so
\* that the first tick after message(text) paints the new text
C14_MessageOnlyStoresText ==
  /\ [][event'.kind = "message" =>
          /\ _message' \in {defaulted(arg, <<>>) : arg \in MsgArgs}
          /\ written' = written
          /\ current' = current
          /\ isSpinnerActive' = isSpinnerActive
          /\ timers' = timers
          /\ loop' = loop
          /\ listeners' = listeners
          /\ blocks' = blocks
          /\ unblock' = unblock]_vars
  /\ [][event'.kind = "tick" =>
          /\ Len(current') = 1
          /\ current'[1].kind = "frame"
          /\ current'[1].text = _message
          /\ _message' = _message]_vars

C14_Witness ==
  /\ event.kind = "tick"
  /\ isSpinnerActive
  /\ loop = 1
  /\ calls.stop = 0
  /\ _message = <<"a", ".">>
  /\ current # <<>>
  /\ current[1].text = <<"a", ".">>

\* C15: after any sequence of start, stop and message calls (start on a
\* running spinner and stop on a stopped one included), a spinner that is not
\* active holds no live interval timer, no registered process hook and no
\* input block; an active one holds exactly one timer and exactly one
\* registration of each hook
C15_ResourcesFollowActivity ==
  /\ ~isSpinnerActive =>
       /\ DOMAIN timers = {}
       /\ \A e \in Hooks : listeners[e] = 0
       /\ blocks = {}
  /\ isSpinnerActive =>
       /\ Cardinality(DOMAIN timers) = 1
       /\ \A e \in Hooks : listeners[e] = 1

\* C16: a stop run by a hook (a fault, a signal, or 'exit' with any exit code)
\* on a running spinner never writes the success glyph, and the glyph of its
\* final line agrees with the message: the cancelled glyph with 'Canceled' or
\* the error glyph with 'Something went wrong'
C16_HookGlyphAgreesWithMessage ==
  [][\A e \in Hooks :
       (Emitted(e) /\ isSpinnerActive /\ StopRan) =>
         LET final == written'[Len(written')][1]
         IN  /\ final.glyph # green(S_STEP_SUBMIT)
             /\ \/ final.glyph = red(S_STEP_CANCEL) /\ final.text = Canceled
                \/ final.glyph = red(S_STEP_ERROR) /\ final.text = SomethingWentWrong]_vars

====
